---- MODULE Spec2Model ----
(***************************************************************************)
(* The retrieval-augmented chat loop of the notebook                       *)
(* Exploring-Twitter-Data-with-Vector-Databases-and-RAG-Systems.ipynb:     *)
(* get_embedding, vector_search, the module-level chat_history, chatbot    *)
(* and the interactive loop around it.                                     *)
(*                                                                         *)
(* A Python str is a sequence of one-character strings where the code      *)
(* looks inside it (input lines); longer literals are single tokens, with  *)
(* their length in characters kept where a caller can iterate over them.   *)
(* An f-string is the concatenation of its parts.                          *)
(***************************************************************************)
EXTENDS Integers, Sequences, FiniteSets, TLC

\* ------------------------------------------------------------------ bounds
MaxAsks == 2   \* chatbot invocations in one kernel session
MaxOver == 3   \* documents stored beyond the query limit in the largest collection

\* --------------------------------------------------------------- constants
limit == 10
numCandidates == 1000

None == <<>>   \* Python None where a vector is expected

VARIABLES
  tweet_collection,  \* the stored documents, in natural order
  chat_history,      \* the module-level list of role-tagged messages
  pc,                \* where chatbot is: "idle", or the external call in flight
  prompt,            \* chatbot's argument
  query_embedding,   \* vector_search's local: the vector, or None
  ranked,            \* output of the $vectorSearch stage of the latest pipeline run
  tweets,            \* the value vector_search returned to chatbot
  messages,          \* the messages of the latest chat.completions request
  trace,             \* what the current (or last) chatbot invocation did, in order
  last,              \* how the last finished invocation ended
  nOk,               \* invocations that returned a reply
  nFail,             \* invocations that raised
  loop,              \* the interactive cell: "off", "input" (at input()), "call"
  user_input,        \* the loop's local: the line read last
  stdout             \* lines printed by the running (or last run) cell

chatVars == <<tweet_collection, chat_history, pc, prompt, query_embedding, ranked,
              tweets, messages, trace, last, nOk, nFail, loop, user_input, stdout>>

\* Collect_Twitter_Data.ipynb, the cells that fetch and insert.
VARIABLES
  cpc,          \* "idle" (no cell running), "insert" (in the zip loop), "fetch"
  cell,         \* the cell that runs or ran last: 7 (first page), 8 (pagination), 0
  response,     \* tweets: the page number of the response held, 0 before the first
  next_token,   \* next_token: a token, or 0 while the name is not bound
  iter,         \* i, the pagination cell's loop variable
  pos,          \* the position of the zip loop in its pairs
  requests,     \* the next_token argument of each page request of this cell run
  attempts,     \* the insert_one calls of this cell run and how each ended
  cerr,         \* the exception that ended the last cell run, "" when none
  runs,         \* cell runs started
  feed,         \* the number of pages of the query's result set
  faults        \* calls that failed for a reason of the network or the service

collectVars == <<cpc, cell, response, next_token, iter, pos, requests, attempts, cerr,
                 runs, feed, faults>>

\* clean_tweet applied to one text.
VARIABLES
  raw,          \* the argument, as the pieces it was written from: plain text and URLs
  cleaned       \* what clean_tweet returned, once it has

cleanVars == <<raw, cleaned>>

\* The embedding backfill cell.
VARIABLES
  bpc,          \* "idle" (the cell is not running) or "loop"
  snapshot,     \* list(tweets): the documents find() returned
  bpos,         \* the position of the loop in snapshot
  bruns,        \* runs of the cell started
  blog          \* one entry per round of the loop: what was embedded and written

backfillVars == <<bpc, snapshot, bpos, bruns, blog>>

\* The search-index cell and the first query cell after it.
VARIABLES
  ipc,          \* "off" (the cells are not run), "create", "poll", "query", "done", "stopped"
  index,        \* the index on the server: "unknown", "absent", "building", "queryable", "failed"
  seen,         \* indices, as the last calls of list_search_indexes returned it
  queried       \* the state of the index at each $vectorSearch aggregate issued

indexVars == <<ipc, index, seen, queried>>

\* chatbot called by several callers of one process.
VARIABLES
  frames,       \* per caller: where its call of chatbot is, and the call's locals
  owner         \* per turn of chat_history: the caller whose call appended it

callerVars == <<frames, owner>>

vars == <<chatVars, collectVars, cleanVars, backfillVars, indexVars, callerVars>>

chatLocals == <<pc, prompt, query_embedding, ranked, tweets, messages,
                trace, last, nOk, nFail, loop, user_input>>
chatCall == <<chat_history, chatLocals>>
chatOnly == <<chatCall, stdout>>

\* What each part leaves alone.
notChat     == <<collectVars, cleanVars, backfillVars, indexVars, callerVars>>
notCollect  == <<chatOnly, cleanVars, backfillVars, indexVars, callerVars>>
notClean    == <<chatVars, collectVars, backfillVars, indexVars, callerVars>>
notBackfill == <<chatCall, collectVars, cleanVars, indexVars, callerVars>>
notIndex    == <<chatVars, collectVars, cleanVars, backfillVars, callerVars>>
notCallers  == <<tweet_collection, chatLocals, stdout, collectVars, cleanVars, backfillVars,
                 indexVars>>

\* No caller followed.
CallersIdle ==
  /\ frames = <<>>
  /\ owner = <<>>

\* The index cells left out of the session.
IndexIdle ==
  /\ ipc = "off"
  /\ index = "unknown"
  /\ seen = <<>>
  /\ queried = <<>>

\* The backfill cell not run.
BackfillIdle ==
  /\ bpc = "idle"
  /\ snapshot = <<>>
  /\ bpos = 0
  /\ bruns = 0
  /\ blog = <<>>

\* clean_tweet not called.
CleanIdle ==
  /\ raw = <<>>
  /\ cleaned = [done |-> FALSE, text |-> <<>>, calls |-> 0]

\* The collection notebook with no fetch cell run yet.
CollectIdle ==
  /\ cpc = "idle"
  /\ cell = 0
  /\ response = 0
  /\ next_token = 0
  /\ iter = 0
  /\ pos = 0
  /\ requests = <<>>
  /\ attempts = <<>>
  /\ cerr = ""
  /\ runs = 0
  /\ faults = 0

\* ------------------------------------------------------------ Python strings
UpperCase == <<"A","B","C","D","E","F","G","H","I","J","K","L","M",
               "N","O","P","Q","R","S","T","U","V","W","X","Y","Z">>
LowerCase == <<"a","b","c","d","e","f","g","h","i","j","k","l","m",
               "n","o","p","q","r","s","t","u","v","w","x","y","z">>

lowerChar(c) ==
  IF \E k \in 1..26 : UpperCase[k] = c
  THEN LowerCase[CHOOSE k \in 1..26 : UpperCase[k] = c]
  ELSE c

\* str.lower()
lower(s) == [i \in 1..Len(s) |-> lowerChar(s[i])]

word_exit == <<"e","x","i","t">>
word_quit == <<"q","u","i","t">>

\* ------------------------------------------------------- external services
\* The embedding provider: a fixed-length vector per text, the same for the same
\* text.  All vectors have norm 5, so the dot product orders as the cosine does.
Vectors == << <<5,0>>, <<4,3>>, <<3,4>>, <<0,5>> >>

EmbeddingOf(text) == Vectors[(Len(text) % 4) + 1]

Dot(u, v) == u[1] * v[1] + u[2] * v[2]

\* The similarity score the index gives a stored vector for a query vector.
Score(qv, dv) == Dot(qv, dv)

\* The replies the completion API may give.
Replies == { <<"reply">> }

\* ------------------------------------------------------------ the documents
TweetTexts == << <<"cyber threats">>, <<"ransomware trends">>, <<"RT cyber threats">> >>

\* Document i as collected and backfilled: every seventh backfill left None.
Document(i) ==
  [ tweet |-> [ id        |-> i,
                text      |-> TweetTexts[(i % 3) + 1],
                embedding |-> IF i % 7 = 3 THEN None ELSE Vectors[(i % 4) + 1] ],
    user  |-> [ id |-> 100 + (i % 2) ] ]

Collection(n) == [i \in 1..n |-> Document(i)]

CollectionSizes == {0, 2, limit + MaxOver}

\* ------------------------------------------------------------- get_embedding
\* get_embedding(text): the provider's vector, or None when the call raised
\* (the except clause prints and returns None).
get_embedding(text, ok) == IF ok THEN EmbeddingOf(text) ELSE None

get_embedding_prints(ok) == IF ok THEN <<>> ELSE << <<"Error in get_embedding: ", "e">> >>

\* ------------------------------------------------------------- vector_search
\* The string vector_search returns when query_embedding is None, and the number
\* of characters in it.
embedding_failed_message == <<"Invalid query or embedding generation failed.">>
embedding_failed_message_len == 45

\* Python values: a str of n characters, a list.
NoValue      == [type |-> "none", value |-> <<>>, len |-> 0]
PyStr(cs, n) == [type |-> "str",  value |-> cs,   len |-> n]
PyList(l)    == [type |-> "list", value |-> l,    len |-> Len(l)]

\* len(v), also the number of items a for loop over v gets (the characters of a
\* str, the elements of a list).
PyLen(v) == v.len

Min(a, b) == IF a <= b THEN a ELSE b

\* The k highest-scoring members of S (indexes into coll), best first; among equal
\* scores the earlier document first.
RECURSIVE Nearest(_, _, _, _)
Nearest(coll, qv, S, k) ==
  IF k = 0 \/ S = {} THEN <<>>
  ELSE LET best == CHOOSE i \in S : \A j \in S :
                     \/ Score(qv, coll[i].tweet.embedding) > Score(qv, coll[j].tweet.embedding)
                     \/ /\ Score(qv, coll[i].tweet.embedding) = Score(qv, coll[j].tweet.embedding)
                        /\ i <= j
       IN  <<best>> \o Nearest(coll, qv, S \ {best}, k - 1)

Range(f) == {f[i] : i \in DOMAIN f}

\* ---------------------------------------------------------------- clean_tweet
\* re.sub(url_pattern, '', text), on texts of characters.
Digits == {"0","1","2","3","4","5","6","7","8","9"}

\* [$-_]: the characters from "$" to "_" that are neither letters nor digits.
DollarToUnderscore ==
  {"$","%","&","'","(",")","*","+",",","-",".","/",":",";","<","=",">","?","@",
   "[","\\","]","^","_"}

\* One repetition of the pattern's group: [a-zA-Z], [0-9], [$-_@.&+], [!*\\(\\),];
\* the %XX alternative begins with a character of [$-_] and adds nothing.
UrlChar(c) ==
  \/ c \in Range(LowerCase) \cup Range(UpperCase)
  \/ c \in Digits
  \/ c \in DollarToUnderscore \cup {"@", ".", "&", "+"}
  \/ c \in {"!", "*", "\\", "(", ")", ","}

At(text, n) == IF n \in 1..Len(text) THEN text[n] ELSE ""

\* The end of the longest run of group characters that starts at n.
RECURSIVE RunEnd(_, _)
RunEnd(text, n) == IF UrlChar(At(text, n)) THEN RunEnd(text, n + 1) ELSE n

\* The position after the match of url_pattern at n, or 0 when there is none:
\* "http", an optional "s", "://", then the group once or more, greedily.
MatchEnd(text, n) ==
  LET scheme == /\ At(text, n) = "h" /\ At(text, n + 1) = "t"
                /\ At(text, n + 2) = "t" /\ At(text, n + 3) = "p"
      m      == IF At(text, n + 4) = "s" THEN n + 5 ELSE n + 4
      slashes == At(text, m) = ":" /\ At(text, m + 1) = "/" /\ At(text, m + 2) = "/"
  IN  IF scheme /\ slashes /\ UrlChar(At(text, m + 3)) THEN RunEnd(text, m + 3) ELSE 0

\* re.sub(url_pattern, '', text) from position n on: the leftmost matches, one after
\* the other, are left out.
RECURSIVE sub(_, _)
sub(text, n) ==
  IF n > Len(text) THEN <<>>
  ELSE IF MatchEnd(text, n) # 0
       THEN sub(text, MatchEnd(text, n))
       ELSE <<text[n]>> \o sub(text, n + 1)

\* re.sub with count=1: the leftmost match alone is left out.
RECURSIVE sub_first(_, _)
sub_first(text, n) ==
  IF n > Len(text) THEN <<>>
  ELSE IF MatchEnd(text, n) # 0
       THEN SubSeq(text, MatchEnd(text, n), Len(text))
       ELSE <<text[n]>> \o sub_first(text, n + 1)

clean_tweet_first_match(text) == sub_first(text, 1)

clean_tweet(text) == sub(text, 1)

\* vector_search that cleans the query before it is embedded.
query_to_embed_cleaned(query) == clean_tweet(query)

\* get_embedding(query): the text vector_search passes to get_embedding.
query_to_embed(query) == query

\* VectorSearchStage with the limit left out of the stage: every candidate is output.
VectorSearchStage_unlimited(coll, qv) ==
  LET indexed == {i \in DOMAIN coll : coll[i].tweet.embedding # None}
      best    == Nearest(coll, qv, indexed, numCandidates)
  IN  [n \in 1..Len(best) |->
         [doc |-> best[n], score |-> Score(qv, coll[best[n]].tweet.embedding)]]

\* The $vectorSearch stage: of the documents that carry a vector at path
\* tweet.embedding, the numCandidates nearest are considered and the limit best of
\* them are output with their score, best first.
VectorSearchStage(coll, qv) ==
  LET indexed    == {i \in DOMAIN coll : coll[i].tweet.embedding # None}
      candidates == Range(Nearest(coll, qv, indexed, numCandidates))
      best       == Nearest(coll, qv, candidates, limit)
  IN  [n \in 1..Len(best) |->
         [doc |-> best[n], score |-> Score(qv, coll[best[n]].tweet.embedding)]]

\* The $project stage: _id excluded, tweet.text kept.
ProjectStage_unprojected(coll, hits) ==
  [n \in 1..Len(hits) |-> [_id   |-> hits[n].doc,
                           tweet |-> [text |-> coll[hits[n].doc].tweet.text],
                           score |-> hits[n].score]]

\* The $project stage: _id is excluded and tweet.text alone is included.
ProjectStage(coll, hits) ==
  [n \in 1..Len(hits) |-> [tweet |-> [text |-> coll[hits[n].doc].tweet.text]]]

\* A pipeline with a last stage that writes to the collection: the best hit is
\* stored without its vector.
collection_after_merge(coll, hits) ==
  IF hits = <<>> THEN coll ELSE [coll EXCEPT ![hits[1].doc].tweet.embedding = None]

\* The collection once the pipeline has run: its two stages, $vectorSearch and
\* $project, read; there is no stage that writes.
collection_after_pipeline(coll, hits) == coll

\* What vector_search returns once get_embedding has returned None.
vector_search_no_embedding == PyStr(embedding_failed_message, embedding_failed_message_len)

\* What vector_search returns once the pipeline has run.
vector_search_result(coll, hits) == PyList(ProjectStage(coll, hits))

\* ------------------------------------------------------------------- chatbot
delimiter == <<"#","#","#">>

\* repr of one returned document: the keys it has, in the order of the document.
ReprItem(d) ==
  (IF "_id" \in DOMAIN d THEN <<"{'_id': ", ToString(d._id), ", 'tweet': {'text': '">>
                          ELSE <<"{'tweet': {'text': '">>)
  \o d.tweet.text
  \o (IF "score" \in DOMAIN d THEN <<"'}, 'score': ", ToString(d.score), "}">>
                              ELSE <<"'}}">>)

RECURSIVE ReprItems(_)
ReprItems(l) ==
  IF l = <<>> THEN <<>>
  ELSE ReprItem(Head(l))
       \o (IF Len(l) > 1 THEN <<", ">> ELSE <<>>) \o ReprItems(Tail(l))

\* The text of a value inside an f-string: a str as it is, a list as its repr.
Format(v) == IF v.type = "list" THEN <<"[">> \o ReprItems(v.value) \o <<"]">> ELSE v.value

system_instruction == <<"you are a chabot answer user questions based on the returned tweets">>
context_prefix     == <<"here the returned tweets delimitered by ">>

SystemTurn      == [role |-> "system",    content |-> system_instruction]
UserTurn(p)     == [role |-> "user",      content |-> p]
ContextTurn(tw) == [role |-> "system",
                    content |-> context_prefix \o delimiter \o Format(tw) \o delimiter]
AssistantTurn(r) == [role |-> "assistant", content |-> r]

\* append_user keeping the list short: the oldest turn after the instruction is
\* dropped once the list holds four turns.
append_user_windowed(h, p) ==
  IF Len(h) >= 4 THEN <<h[1]>> \o SubSeq(h, 3, Len(h)) \o <<UserTurn(p)>>
  ELSE Append(h, UserTurn(p))

\* append_user that takes the place of an unanswered exchange: the turns after the
\* last assistant turn are dropped before the new user turn is appended.
append_user_replacing(h, p) ==
  LET k == CHOOSE k \in 1..Len(h) :
             /\ k = 1 \/ h[k].role = "assistant"
             /\ \A j \in (k + 1)..Len(h) : h[j].role # "assistant"
  IN  Append(SubSeq(h, 1, k), UserTurn(p))

\* append_context that records nothing when vector_search returned its message.
append_context_unless_message(h, tw) ==
  IF tw.type = "str" THEN h ELSE Append(h, ContextTurn(tw))

\* append_context that puts the retrieved tweets right after the instruction.
insert_context_first(h, tw) == <<h[1], ContextTurn(tw)>> \o Tail(h)

\* request_messages that sends the instruction and the current exchange only.
request_last_exchange(h) ==
  IF Len(h) >= 3 THEN <<h[1]>> \o SubSeq(h, Len(h) - 1, Len(h)) ELSE h

\* history_on_raise that takes the turns of the failed invocation back.
history_rolled_back(h) == IF Len(h) >= 3 THEN SubSeq(h, 1, Len(h) - 2) ELSE h

\* chat_history.append(...), one operator per call site.
append_user(h, p)      == Append(h, UserTurn(p))
append_context(h, tw)  == Append(h, ContextTurn(tw))
append_assistant(h, r) == Append(h, AssistantTurn(r))

\* messages=chat_history
request_messages(h) == h

\* chat_history when an exception leaves chatbot: there is no except clause and
\* no cleanup, the list stays as it is.
history_on_raise(h) == h

NoResult      == [status |-> "none",     at |-> "",  reply |-> <<>>]
Returned(r)   == [status |-> "returned", at |-> "",  reply |-> r]
Raised(where) == [status |-> "raised",   at |-> where, reply |-> <<>>]

\* ------------------------------------------------------------------- inputs
\* Lines typed at input(): the two words in several letter cases, a line that only
\* contains one of them, and ordinary questions.
InputLines ==
  { <<"e","x","i","t">>, <<"E","X","I","T">>, <<"q","u","i","t">>, <<"Q","u","i","t">>,
    <<"q","u","i","t"," ">>, <<"h","i">> }

\* Arguments of a chatbot(...) call made from a cell of its own.
DirectPrompts == { <<"q","u","i","t">>, <<"t","h","r","e","a","t","s">> }

\* ---------------------------------------------------------------------- Init
\* The RAG notebook with chat_history just defined and no call made.
ChatIdle ==
  /\ chat_history = <<SystemTurn>>
  /\ pc = "idle"
  /\ prompt = <<>>
  /\ query_embedding = None
  /\ ranked = <<>>
  /\ tweets = NoValue
  /\ messages = <<>>
  /\ trace = <<>>
  /\ last = NoResult
  /\ nOk = 0
  /\ nFail = 0
  /\ loop = "off"
  /\ user_input = <<>>
  /\ stdout = <<>>

Init ==
  /\ tweet_collection \in {Collection(n) : n \in CollectionSizes}
  /\ ChatIdle
  /\ CollectIdle
  /\ feed = 1
  /\ CleanIdle
  /\ BackfillIdle
  /\ IndexIdle
  /\ CallersIdle

\* chatbot_enter that treats the loop's words as a command: the call returns a
\* goodbye at once, touching neither the history nor any service.
chatbot_enter_sentinel(p) ==
  /\ nOk + nFail < MaxAsks
  /\ prompt' = p
  /\ query_embedding' = None
  /\ ranked' = <<>>
  /\ tweets' = NoValue
  /\ last' = NoResult
  /\ IF lower(p) \in {word_exit, word_quit}
     THEN /\ trace' = <<>>
          /\ pc' = "idle"
          /\ UNCHANGED chat_history
     ELSE /\ trace' = <<"append user", "call embeddings">>
          /\ pc' = "embeddings"
          /\ chat_history' = Append(chat_history, [role |-> "user", content |-> p])
  /\ UNCHANGED <<tweet_collection, messages, nOk, nFail>>

\* ------------------------------------------------------------------- chatbot
\* chatbot(p) up to its first external call: the user turn is appended, then
\* vector_search calls get_embedding, which calls the embedding provider.
chatbot_enter(p) ==
  /\ nOk + nFail < MaxAsks
  /\ chat_history' = append_user(chat_history, p)
  /\ prompt' = p
  /\ query_embedding' = None
  /\ ranked' = <<>>
  /\ tweets' = NoValue
  /\ trace' = <<"append user", "call embeddings">>
  /\ last' = NoResult
  /\ pc' = "embeddings"
  /\ UNCHANGED <<tweet_collection, messages, nOk, nFail>>

\* chatbot from the return of vector_search to the completion request: the
\* retrieved-context turn is appended and the whole list is sent.
chatbot_after_search(tw, events) ==
  /\ tweets' = tw
  /\ chat_history' = append_context(chat_history, tw)
  /\ messages' = request_messages(chat_history')
  /\ trace' = trace \o events \o <<"append context", "call completions">>
  /\ pc' = "completions"

\* The embedding call returns or raises.  On a raise get_embedding prints and
\* returns None, and vector_search returns its message without running the pipeline.
EmbeddingsReturn ==
  /\ pc = "embeddings"
  /\ \E ok \in BOOLEAN :
       /\ query_embedding' = get_embedding(query_to_embed(prompt), ok)
       /\ stdout' = stdout \o get_embedding_prints(ok)
       /\ IF query_embedding' = None
          THEN /\ chatbot_after_search(vector_search_no_embedding, <<"embeddings error">>)
               /\ UNCHANGED ranked
          ELSE /\ pc' = "aggregate"
               /\ trace' = trace \o <<"embeddings ok", "call aggregate">>
               /\ UNCHANGED <<chat_history, ranked, tweets, messages>>
  /\ UNCHANGED <<tweet_collection, prompt, last, nOk, nFail, loop, user_input>>
  /\ UNCHANGED notChat

\* chatbot_raises that issues the failed call again instead of raising.
chatbot_reissues(where, event) ==
  /\ chat_history' = chat_history
  /\ trace' = trace \o <<event, IF where = "aggregate" THEN "call aggregate"
                                                       ELSE "call completions">>
  /\ last' = last
  /\ nFail' = nFail
  /\ pc' = pc
  /\ loop' = loop
  /\ UNCHANGED <<nOk, stdout>>

\* An exception leaves chatbot; it also ends the loop cell when that is the caller.
chatbot_raises(where, event) ==
  /\ chat_history' = history_on_raise(chat_history)
  /\ trace' = trace \o <<event>>
  /\ last' = Raised(where)
  /\ nFail' = nFail + 1
  /\ pc' = "idle"
  /\ loop' = "off"
  /\ UNCHANGED <<nOk, stdout>>

\* tweet_collection.aggregate(pipeline) returns or raises (index missing, server
\* unreachable); nothing in vector_search or chatbot catches the exception.
AggregateReturn ==
  /\ pc = "aggregate"
  /\ \E ok \in BOOLEAN :
       IF ok
       THEN /\ ranked' = VectorSearchStage(tweet_collection, query_embedding)
            /\ tweet_collection' = collection_after_pipeline(tweet_collection, ranked')
            /\ chatbot_after_search(vector_search_result(tweet_collection, ranked'),
                                    <<"aggregate ok">>)
            /\ UNCHANGED <<last, nOk, nFail, loop, stdout>>
       ELSE /\ chatbot_raises("aggregate", "aggregate error")
            /\ UNCHANGED <<tweet_collection, ranked, tweets, messages>>
  /\ UNCHANGED <<prompt, query_embedding, user_input>>
  /\ UNCHANGED notChat

\* client.chat.completions.create returns or raises.  On a return the reply is
\* appended and returned; the loop, when it is the caller, prints it.
CompletionsReturn ==
  /\ pc = "completions"
  /\ \/ \E reply \in Replies :
          /\ chat_history' = append_assistant(chat_history, reply)
          /\ trace' = trace \o <<"completions ok", "append assistant">>
          /\ last' = Returned(reply)
          /\ nOk' = nOk + 1
          /\ pc' = "idle"
          /\ IF loop = "call"
             THEN /\ stdout' = Append(stdout, <<"Chatbot: ">> \o reply)
                  /\ loop' = "input"
             ELSE UNCHANGED <<stdout, loop>>
          /\ UNCHANGED nFail
     \/ chatbot_raises("completions", "completions error")
  /\ UNCHANGED <<tweet_collection, prompt, query_embedding, ranked, tweets, messages,
                 user_input>>
  /\ UNCHANGED notChat

\* A cell that calls chatbot(p).
DirectCall ==
  /\ loop = "off"
  /\ pc = "idle"
  /\ \E p \in DirectPrompts : chatbot_enter(p)
  /\ stdout' = <<>>
  /\ UNCHANGED <<loop, user_input>>
  /\ UNCHANGED notChat

\* ---------------------------------------------------------- interactive loop
\* is_exit without lower(): only the lower-case words end the loop.
is_exit_case_sensitive(line) == line \in {word_exit, word_quit}

is_exit(line) == lower(line) \in {word_exit, word_quit}

goodbye == <<"Chatbot: Goodbye!">>

\* history_at_loop_start of a loop cell that defines chat_history anew.
history_reinitialised(h) == <<h[1]>>

\* chat_history when the loop cell starts: the cell has no assignment to it, the
\* module-level list is the one chatbot goes on appending to.
history_at_loop_start(h) == h

\* The loop cell starts: while True, at input().
RunLoopCell ==
  /\ loop = "off"
  /\ pc = "idle"
  /\ loop' = "input"
  /\ stdout' = <<>>
  /\ chat_history' = history_at_loop_start(chat_history)
  /\ UNCHANGED <<tweet_collection, pc, prompt, query_embedding, ranked,
                 tweets, messages, trace, last, nOk, nFail, user_input>>
  /\ UNCHANGED notChat

\* input() returns a line: goodbye and break, or chatbot(user_input).
ReadLine ==
  /\ loop = "input"
  /\ pc = "idle"
  /\ \E line \in InputLines :
       /\ user_input' = line
       /\ IF is_exit(line)
          THEN /\ stdout' = Append(stdout, goodbye)
               /\ loop' = "off"
               /\ UNCHANGED <<tweet_collection, chat_history, pc, prompt, query_embedding,
                              ranked, tweets, messages, trace, last, nOk, nFail>>
          ELSE /\ chatbot_enter(line)
               /\ loop' = "call"
               /\ UNCHANGED stdout
  /\ UNCHANGED notChat

Next ==
  \/ DirectCall
  \/ RunLoopCell
  \/ ReadLine
  \/ EmbeddingsReturn
  \/ AggregateReturn
  \/ CompletionsReturn

Spec == Init /\ [][Next]_vars

\* ============================================================== properties
IsInstruction(t) == t.role = "system" /\ t.content = system_instruction
IsContext(t) ==
  /\ t.role = "system"
  /\ Len(t.content) >= Len(context_prefix \o delimiter \o delimiter)
  /\ SubSeq(t.content, 1, Len(context_prefix \o delimiter)) = context_prefix \o delimiter
IsUser(t)      == t.role = "user"
IsAssistant(t) == t.role = "assistant"

Finished == pc = "idle" /\ last.status # "none"
Did(event) == \E i \in 1..Len(trace) : trace[i] = event

\* Turns 3k-1, 3k, 3k+1 of h are a user, a retrieved-context and an assistant turn.
Exchange(h, k) == IsUser(h[3*k - 1]) /\ IsContext(h[3*k]) /\ IsAssistant(h[3*k + 1])

\* C1: while no invocation has failed, between invocations the history holds the
\* initial system turn followed by one user, one retrieved-context and one
\* assistant turn, in that order, per invocation: 1 + 3N turns after N invocations.
C1_ThreeTurnsPerSuccessfulAsk ==
  (pc = "idle" /\ nFail = 0) =>
     /\ Len(chat_history) = 1 + 3 * nOk
     /\ IsInstruction(chat_history[1])
     /\ \A k \in 1..nOk : Exchange(chat_history, k)

C1_Witness == pc = "idle" /\ nFail = 0 /\ nOk >= 2

\* C2: when the completion call of invocation N+1 raises after N invocations that
\* returned, chatbot raises and the history holds 1 + 3N + 2 turns: the N exchanges,
\* then the user turn and the retrieved-context turn of the failed invocation, and
\* no assistant turn for it.
C2_CompletionFailureLeavesTwoTurns ==
  (pc = "idle" /\ last = Raised("completions") /\ nFail = 1) =>
     LET n == Len(chat_history) IN
     /\ n = 1 + 3 * nOk + 2
     /\ IsInstruction(chat_history[1])
     /\ \A k \in 1..nOk : Exchange(chat_history, k)
     /\ chat_history[n - 1] = UserTurn(prompt)
     /\ chat_history[n] = ContextTurn(tweets)
     /\ IsContext(chat_history[n])

C2_Witness == pc = "idle" /\ last = Raised("completions") /\ nFail = 1 /\ nOk >= 1

NotContext(t) == ~IsContext(t)

\* C3 as stated: the history begins with the only system-instruction turn; leaving
\* the retrieved-context turns aside, user and assistant turns alternate after it;
\* every retrieved-context turn directly follows a user turn and is directly
\* followed by the assistant turn of that exchange (once there is a next turn).
C3_AlwaysAlternates ==
  LET h == chat_history
      d == SelectSeq(Tail(h), NotContext)
  IN  /\ IsInstruction(h[1])
      /\ \A i \in 2..Len(h) : ~IsInstruction(h[i])
      /\ \A i \in 1..Len(d) : d[i].role = IF i % 2 = 1 THEN "user" ELSE "assistant"
      /\ \A i \in 1..Len(h) : IsContext(h[i]) =>
            /\ i > 1 /\ IsUser(h[i - 1])
            /\ i < Len(h) => IsAssistant(h[i + 1])

\* C3 amended: the history begins with the only system-instruction turn; every
\* retrieved-context turn directly follows a user turn and every assistant turn
\* directly follows a retrieved-context turn; user and assistant turns alternate as
\* stated as long as no invocation has failed.
C3_TurnOrder ==
  LET h == chat_history IN
  /\ IsInstruction(h[1])
  /\ \A i \in 2..Len(h) :
        /\ ~IsInstruction(h[i])
        /\ IsUser(h[i]) \/ IsContext(h[i]) \/ IsAssistant(h[i])
        /\ IsContext(h[i]) => IsUser(h[i - 1])
        /\ IsAssistant(h[i]) => IsContext(h[i - 1])
  /\ nFail = 0 => C3_AlwaysAlternates

C3_Witness == pc = "idle" /\ nFail >= 1 /\ nOk >= 1 /\ IsAssistant(chat_history[Len(chat_history)])

\* C4: every step leaves the history it found as a prefix of the history it leaves.
C4_AppendOnly ==
  [][ /\ Len(chat_history') >= Len(chat_history)
      /\ SubSeq(chat_history', 1, Len(chat_history)) = chat_history ]_vars

C4_Witness == nFail >= 1 /\ nOk >= 1 /\ Len(chat_history) >= 6

\* C5 as stated: an invocation whose index query raised still appends a
\* retrieved-context turn, issues the completion call and returns a reply.
C5_DegradesOnIndexFailure ==
  (Finished /\ Did("aggregate error")) =>
     /\ last.status = "returned"
     /\ Did("append context")
     /\ Did("call completions")
     /\ IsAssistant(chat_history[Len(chat_history)])

\* C6 as stated: once the embedding call has failed, vector_search has issued no
\* index query, raised nothing, and returned a value that holds no items.
C6_EmbeddingFailureReturnsNothing ==
  Did("embeddings error") =>
     /\ ~Did("call aggregate")
     /\ tweets.type # "none"
     /\ PyLen(tweets) = 0

\* The result sizes a caller may ask for.
TopKs == 0..limit

Indexed == {i \in DOMAIN tweet_collection : tweet_collection[i].tweet.embedding # None}

\* The documents vector_search returned are those the index ranked, best first.
RankedBestFirst ==
  /\ Len(ranked) = Len(tweets.value)
  /\ \A n \in 1..Len(ranked) :
        /\ ranked[n].doc \in Indexed
        /\ ranked[n].score = Score(query_embedding,
                                   tweet_collection[ranked[n].doc].tweet.embedding)
        /\ tweets.value[n] = [tweet |-> [text |-> tweet_collection[ranked[n].doc].tweet.text]]
        /\ n < Len(ranked) => ranked[n].score >= ranked[n + 1].score
  /\ \A m, n \in 1..Len(ranked) : m # n => ranked[m].doc # ranked[n].doc
  /\ \A i \in Indexed : \A n \in 1..Len(ranked) :
        (\A m \in 1..Len(ranked) : ranked[m].doc # i) =>
           Score(query_embedding, tweet_collection[i].tweet.embedding) <= ranked[n].score

IsCall(e) == e \in {"call embeddings", "call aggregate", "call completions"}

\* C8 as stated: a finished invocation appended the user turn first, then issued
\* one embedding call, then (unless the embedding failed) one index query, then one
\* completion call, each after the previous one had returned, and appended an
\* assistant turn only after the completion call had returned.
C8_OneCallEachInOrder ==
  Finished =>
     /\ trace[1] = "append user"
     /\ SelectSeq(trace, IsCall) =
          IF Did("embeddings error")
          THEN <<"call embeddings", "call completions">>
          ELSE <<"call embeddings", "call aggregate", "call completions">>
     /\ \A i \in 1..Len(trace) :
          /\ IsCall(trace[i]) => i < Len(trace) /\ ~IsCall(trace[i + 1])
          /\ trace[i] = "append assistant" => i > 1 /\ trace[i - 1] = "completions ok"

\* C9: when the completion request is issued, its messages are the history the
\* invocation found after appending its user turn (every turn left by earlier
\* invocations, then the user turn) followed by its retrieved-context turn, and that
\* is the whole history at that moment.
C9_RequestIsWholeHistory ==
  [][ (pc # "completions" /\ pc' = "completions") =>
        /\ messages' = chat_history'
        /\ messages' = Append(chat_history, ContextTurn(tweets'))
        /\ chat_history[Len(chat_history)] = UserTurn(prompt')
        /\ Len(messages') >= 3 * nOk + 3
        /\ SubSeq(messages', Len(messages') - 1, Len(messages')) =
             <<UserTurn(prompt'), ContextTurn(tweets')>> ]_vars

C9_Witness ==
  /\ pc = "completions"
  /\ nFail >= 1
  /\ messages = chat_history
  /\ Len(messages) >= 5

Capital(c) == UpperCase[CHOOSE k \in 1..26 : LowerCase[k] = c]

\* line is word, each letter in either case.
AnyCase(line, word) ==
  /\ Len(line) = Len(word)
  /\ \A i \in 1..Len(word) : line[i] \in {word[i], Capital(word[i])}

\* chatbot invocations entered so far.
Invocations == nOk + nFail + (IF pc = "idle" THEN 0 ELSE 1)

\* C10: a line read by the loop that is exit or quit in any letter case ends the
\* loop after printing the goodbye line, with no chatbot invocation and the history
\* unchanged; any other line enters chatbot once with that line, and when chatbot
\* returns the loop prints "Chatbot: " followed by the reply and reads again.
C10_LoopDispatch ==
  [][ /\ loop = "input" =>
           IF AnyCase(user_input', word_exit) \/ AnyCase(user_input', word_quit)
           THEN /\ loop' = "off"
                /\ stdout' = Append(stdout, goodbye)
                /\ chat_history' = chat_history
                /\ Invocations' = Invocations
                /\ pc' = "idle"
           ELSE /\ loop' = "call"
                /\ Invocations' = Invocations + 1
                /\ prompt' = user_input'
                /\ chat_history' = Append(chat_history, UserTurn(user_input'))
                /\ stdout' = stdout
      /\ loop = "call" =>
           /\ Invocations' = Invocations
           /\ loop' = "input" =>
                /\ last'.status = "returned"
                /\ stdout' = Append(stdout, <<"Chatbot: ">> \o last'.reply)
           /\ loop' = "off" => last'.status = "raised" ]_vars

C10_Witness ==
  /\ loop = "off"
  /\ user_input = <<"Q","u","i","t">>
  /\ Len(stdout) >= 2
  /\ stdout[Len(stdout)] = goodbye
  /\ stdout[Len(stdout) - 1] = <<"Chatbot: ">> \o last.reply
  /\ last.status = "returned"

\* ================================================= chatbot called directly
\* Texts passed to chatbot by a caller other than the loop, the loop's two words
\* among them.
AskTexts ==
  { <<"q","u","i","t">>, <<"e","x","i","t">>, <<"E","x","i","t">>,
    <<"r","e","c","e","n","t"," ","t","h","r","e","a","t","s">> }

\* A cell that calls chatbot(text).
AskAnything ==
  /\ loop = "off"
  /\ pc = "idle"
  /\ \E text \in AskTexts : chatbot_enter(text)
  /\ stdout' = <<>>
  /\ UNCHANGED <<loop, user_input>>
  /\ UNCHANGED notChat

NextDirect ==
  \/ AskAnything
  \/ EmbeddingsReturn
  \/ AggregateReturn
  \/ CompletionsReturn

SpecDirect == Init /\ [][NextDirect]_vars

SentinelPrompt == AnyCase(prompt, word_exit) \/ AnyCase(prompt, word_quit)

\* C11: a chatbot call whose text is exit or quit (in any letter case) goes the way
\* of any other call: the user turn with that text is appended and the embedding
\* call issued; when the call returns, the completion API was called and the
\* history ends with that user turn, the retrieved-context turn and the reply.
C11_SentinelIsOrdinaryText ==
  SentinelPrompt =>
     LET n == Len(chat_history) IN
     /\ Len(trace) >= 2
     /\ SubSeq(trace, 1, 2) = <<"append user", "call embeddings">>
     /\ \E i \in 2..n : chat_history[i] = UserTurn(prompt)
     /\ pc = "embeddings" => chat_history[n] = UserTurn(prompt)
     /\ (pc = "idle" /\ last.status # "raised") =>
          /\ last.status = "returned"
          /\ last.reply \in Replies
          /\ Did("call completions")
          /\ n >= 4
          /\ SubSeq(chat_history, n - 2, n) =
               <<UserTurn(prompt), ContextTurn(tweets), AssistantTurn(last.reply)>>

C11_Witness ==
  /\ prompt = word_quit
  /\ pc = "idle"
  /\ last.status = "returned"
  /\ nOk >= 2
  /\ chat_history[Len(chat_history) - 2] = UserTurn(word_quit)

\* ===================================================== unanswered user turns
\* The user turn at i has its retrieved-context turn and its assistant turn.
Answered(h, i) ==
  /\ i + 2 <= Len(h)
  /\ IsContext(h[i + 1])
  /\ IsAssistant(h[i + 2])

\* The user turn at i was left unanswered by an invocation that has ended.
Dangling(i) ==
  /\ i \in 1..Len(chat_history)
  /\ IsUser(chat_history[i])
  /\ ~Answered(chat_history, i)
  /\ pc = "idle" \/ \E j \in (i + 1)..Len(chat_history) : IsUser(chat_history[j])

\* C16: the history comes to end with an assistant turn only by a completion call
\* returning; a user turn left unanswered by a failed invocation stays where it is
\* and stays unanswered; the next invocation appends its own user turn after it; and
\* every later completion request carries the unanswered turn.
C16_DanglingTurnStays ==
  [][ /\ (chat_history' # chat_history /\ IsAssistant(chat_history'[Len(chat_history')])) =>
           /\ pc = "completions"
           /\ last'.status = "returned"
           /\ nOk' = nOk + 1
      /\ (last'.status = "raised" /\ last.status # "raised") =>
           /\ ~IsAssistant(chat_history'[Len(chat_history')])
           /\ \E i \in 2..Len(chat_history') :
                chat_history'[i] = UserTurn(prompt) /\ Dangling(i)'
      /\ \A i \in 1..Len(chat_history) : Dangling(i) =>
           /\ Len(chat_history') >= Len(chat_history)
           /\ chat_history'[i] = chat_history[i]
           /\ Dangling(i)'
           /\ (pc = "idle" /\ pc' # "idle") =>
                chat_history' = Append(chat_history, UserTurn(prompt'))
           /\ (pc # "completions" /\ pc' = "completions") =>
                /\ i <= Len(messages')
                /\ messages'[i] = chat_history[i] ]_vars

C16_Witness ==
  /\ pc = "completions"
  /\ nFail >= 1
  /\ \E i \in 2..Len(chat_history) :
       /\ Dangling(i)
       /\ IsContext(chat_history[i + 1])
       /\ messages[i] = chat_history[i]

\* ---------------------------------------------------------------------------
\* Collect_Twitter_Data.ipynb: the recent-search feed, the unique index and the
\* two cells that insert what a page returns.

MaxRuns   == 3    \* cell runs of one session
MaxFaults == 1    \* calls that fail for a reason of the network or the service

\* for i in range(5)
page_rounds == 5

\* Result sets of the query, by their number of pages.
FeedSizes == {1, 2, page_rounds + 2}

\* Page p of the feed. Consecutive pages overlap, every third page lists its first
\* tweet twice, and a page has fewer users than tweets when an author wrote two.
PageIds(p) == IF p % 3 = 0 THEN <<p, p, p + 1, p + 2>> ELSE <<p, p + 1, p + 2>>

AuthorOf(id) == 100 + ((id \div 2) % 2)

\* The link Twitter puts into the text of a tweet.
tweet_link == <<"h","t","t","p","s",":","/","/","t",".","c","o","/","x","1">>

\* The text of the tweet with this id, as the API returns it: every other tweet
\* ends with a link.
TweetText(id) ==
  TweetTexts[(id % 3) + 1] \o (IF id % 2 = 1 THEN <<" ">> \o tweet_link ELSE <<>>)

\* tweet.data of the tweet with this id.
TweetData(id) == [id |-> id, text |-> TweetText(id), author_id |-> AuthorOf(id)]

\* Keeps the first occurrence of each element.
RECURSIVE Distinct(_)
Distinct(seq) ==
  IF seq = <<>> THEN <<>>
  ELSE LET front == Distinct(SubSeq(seq, 1, Len(seq) - 1))
           x     == seq[Len(seq)]
       IN  IF \E n \in DOMAIN front : front[n] = x THEN front ELSE Append(front, x)

\* tweets.data and tweets.includes['users'] of page p: the expansion holds each
\* author once.
PageData(p)  == [n \in DOMAIN PageIds(p) |-> TweetData(PageIds(p)[n])]
PageUsers(p) == Distinct([n \in DOMAIN PageIds(p) |-> AuthorOf(PageIds(p)[n])])

\* tweets.meta of page p of a feed of `size` pages: the last page has no next_token.
PageMeta(p, size) == IF p < size THEN [next_token |-> p + 1] ELSE [result_count |-> Len(PageIds(p))]

\* zip(tweets.includes['users'], tweets.data): pairs by position, as long as the
\* shorter of the two.
Zip(users, data) == [n \in 1..Min(Len(users), Len(data)) |-> [user |-> users[n], tweet |-> data[n]]]

\* tweet_json
tweet_json(pair) == [tweet |-> pair.tweet, user |-> [id |-> pair.user]]

\* The unique index on tweet.id refuses a document whose id is stored.
DuplicateKey(coll, doc) == \E n \in DOMAIN coll : coll[n].tweet.id = doc.tweet.id

\* insert_one with no unique index behind it.
insert_one_no_index(coll, doc) == Append(coll, doc)

\* insert_one that overwrites the stored document of the same id.
insert_one_upsert(coll, doc) ==
  IF DuplicateKey(coll, doc)
  THEN [n \in DOMAIN coll |-> IF coll[n].tweet.id = doc.tweet.id THEN doc ELSE coll[n]]
  ELSE Append(coll, doc)

\* insert_one that the server carries out: the collection afterwards.
insert_one(coll, doc) == IF DuplicateKey(coll, doc) THEN coll ELSE Append(coll, doc)

Pairs(p) == Zip(PageUsers(p), PageData(p))

\* Where control goes once pair n of page p is done (n = 0: the page has just been
\* fetched): the next pair, the next round of the pagination loop, or the cell's end.
Advance(c, p, n) ==
  IF n < Len(Pairs(p))
  THEN /\ cpc' = "insert"
       /\ pos' = n + 1
       /\ UNCHANGED iter
  ELSE IF c = 8 /\ iter + 1 < page_rounds
  THEN /\ cpc' = "fetch"
       /\ iter' = iter + 1
       /\ pos' = n
  ELSE /\ cpc' = "idle"
       /\ pos' = n
       /\ UNCHANGED iter

\* The first-page cell is run.
RunFirstCell ==
  /\ cpc = "idle"
  /\ runs < MaxRuns
  /\ runs' = runs + 1
  /\ cell' = 7
  /\ cpc' = "fetch"
  /\ requests' = <<>>
  /\ attempts' = <<>>
  /\ cerr' = ""
  /\ UNCHANGED <<tweet_collection, response, next_token, iter, pos, feed, faults>>
  /\ UNCHANGED notCollect

\* The pagination cell is run; with next_token not bound its first request raises
\* NameError.
RunPaginationCell ==
  /\ cpc = "idle"
  /\ runs < MaxRuns
  /\ runs' = runs + 1
  /\ cell' = 8
  /\ iter' = 0
  /\ requests' = <<>>
  /\ attempts' = <<>>
  /\ IF next_token = 0
     THEN /\ cerr' = "NameError"
          /\ UNCHANGED cpc
     ELSE /\ cerr' = ""
          /\ cpc' = "fetch"
  /\ UNCHANGED <<tweet_collection, response, next_token, pos, feed, faults>>
  /\ UNCHANGED notCollect

\* A pagination cell that leaves the next_token argument out.
request_token_none(c, token) == 0

\* The next_token argument of the request: none in the first-page cell, the
\* value of next_token in the pagination cell.
request_token(c, token) == IF c = 7 THEN 0 ELSE token

\* search_recent_tweets returns a page or raises; then next_token is read from the
\* page's meta, which raises KeyError on a page that has none.
FetchPage ==
  /\ cpc = "fetch"
  /\ LET arg == request_token(cell, next_token)
         p   == IF arg = 0 THEN 1 ELSE arg
     IN  /\ requests' = Append(requests, arg)
         /\ \/ /\ faults < MaxFaults
               /\ faults' = faults + 1
               /\ cerr' = "search_recent_tweets"
               /\ cpc' = "idle"
               /\ UNCHANGED <<response, next_token, iter, pos>>
            \/ /\ response' = p
               /\ UNCHANGED faults
               /\ IF "next_token" \in DOMAIN PageMeta(p, feed)
                  THEN /\ next_token' = PageMeta(p, feed).next_token
                       /\ Advance(cell, p, 0)
                       /\ UNCHANGED cerr
                  ELSE /\ cerr' = "KeyError"
                       /\ cpc' = "idle"
                       /\ UNCHANGED <<next_token, iter, pos>>
  /\ UNCHANGED <<tweet_collection, cell, attempts, runs, feed>>
  /\ UNCHANGED notCollect

\* One round of the zip loop: insert_one stores the document, or raises (the id is
\* stored already, or the call failed) and the bare except passes.
InsertPair ==
  /\ cpc = "insert"
  /\ LET doc == tweet_json(Pairs(response)[pos])
         att == [page |-> response, pos |-> pos, id |-> doc.tweet.id]
     IN  \/ /\ tweet_collection' = insert_one(tweet_collection, doc)
            /\ attempts' = Append(attempts,
                 att @@ [result |-> IF DuplicateKey(tweet_collection, doc)
                                    THEN "DuplicateKeyError" ELSE "inserted"])
            /\ UNCHANGED faults
         \/ /\ faults < MaxFaults
            /\ faults' = faults + 1
            /\ attempts' = Append(attempts, att @@ [result |-> "error"])
            /\ UNCHANGED tweet_collection
  /\ Advance(cell, response, pos)
  /\ UNCHANGED <<cell, response, next_token, requests, cerr, runs, feed>>
  /\ UNCHANGED notCollect

CollectInit ==
  /\ tweet_collection = <<>>
  /\ ChatIdle
  /\ CollectIdle
  /\ feed \in FeedSizes
  /\ CleanIdle
  /\ BackfillIdle
  /\ IndexIdle
  /\ CallersIdle

NextCollect ==
  \/ RunFirstCell
  \/ RunPaginationCell
  \/ FetchPage
  \/ InsertPair

SpecCollect == CollectInit /\ [][NextCollect]_vars

\* C12: whatever was inserted, within a page, across overlapping pages or across
\* reruns of the cells, the collection holds at most one document per tweet id.
C12_OneDocumentPerId ==
  \A m, n \in DOMAIN tweet_collection :
     tweet_collection[m].tweet.id = tweet_collection[n].tweet.id => m = n

\* The pagination cell met an id stored from the page before and an id listed
\* twice in one page; both were refused and the collection went on growing.
C12_Witness ==
  /\ cell = 8
  /\ \E a \in DOMAIN attempts :
        /\ attempts[a].result = "DuplicateKeyError"
        /\ attempts[a].page = 2
        /\ attempts[a].id \in Range(PageIds(1))
  /\ \E a, b \in DOMAIN attempts :
        /\ a < b
        /\ attempts[a].page = attempts[b].page
        /\ attempts[a].id = attempts[b].id
        /\ attempts[b].result = "DuplicateKeyError"
  /\ Len(tweet_collection) >= 4

\* C13: a duplicate-key insert raises nothing to the cell and leaves the stored
\* document as it was; the loop goes on with the next pair of the page, or after
\* the last pair with the next page of the pagination loop.
C13_DuplicateIgnored ==
  [][ (cpc = "insert" /\ attempts' # attempts
          /\ attempts'[Len(attempts')].result = "DuplicateKeyError")
      => /\ tweet_collection' = tweet_collection
         /\ \E n \in DOMAIN tweet_collection :
               tweet_collection[n].tweet.id = Pairs(response)[pos].tweet.id
         /\ cerr' = cerr /\ cerr = ""
         /\ IF pos < Len(Pairs(response))
            THEN cpc' = "insert" /\ pos' = pos + 1
            ELSE IF cell = 8 /\ iter + 1 < page_rounds
            THEN cpc' = "fetch" /\ iter' = iter + 1 /\ next_token' = response + 1
            ELSE cpc' = "idle" ]_vars

\* After a refused duplicate the same run stored a later tweet of a later page.
C13_Witness ==
  \E a, b \in DOMAIN attempts :
     /\ a < b
     /\ attempts[a].result = "DuplicateKeyError"
     /\ attempts[b].result = "inserted"
     /\ attempts[b].page > attempts[a].page
     /\ cerr = ""

\* ---------------------------------------------------------------------------
\* clean_tweet: re.sub(url_pattern, '', text), on texts of characters.

MaxPieces == 3    \* pieces of one text
MaxCleans == 2    \* calls of clean_tweet on one text and its results

\* Pieces of tweets: plain text with emoji and punctuation, and URLs.
\* "U+1F600" stands for the one character of that code point.
PlainPieces ==
  { <<"s","e","e"," ">>, <<" ","n","o","w">>, <<"!"," ","o","k">>, <<"U+1F600">>,
    <<")",".">>, <<"h","t">>, <<"t","p",":","/","/","a">> }

UrlPieces ==
  { <<"h","t","t","p","s",":","/","/","t",".","c","o","/","x","1">>,
    <<"h","t","t","p",":","/","/","t",".","c","o","/","y","?","q","=","1">>,
    <<"h","t","t","p","s",":","/","/","t",".","c","o","/","a","#","b">>,
    <<"h","t","t","p","s",":","/","/","t",".","c","o","/","~","u">> }

Pieces == [url : {FALSE}, chars : PlainPieces] \cup [url : {TRUE}, chars : UrlPieces]

\* Texts of at most MaxPieces pieces in which no URL runs into the next one.
Texts ==
  { t \in UNION { [1..n -> Pieces] : n \in 0..MaxPieces } :
      \A n \in 1..(Len(t) - 1) : ~(t[n].url /\ t[n + 1].url) }

\* The characters of the pieces, in order.
RECURSIVE Flatten(_)
Flatten(t) == IF t = <<>> THEN <<>> ELSE t[1].chars \o Flatten(Tail(t))

\* The pieces that are not URLs.
RECURSIVE PlainOf(_)
PlainOf(t) ==
  IF t = <<>> THEN <<>>
  ELSE IF t[1].url THEN PlainOf(Tail(t)) ELSE <<t[1]>> \o PlainOf(Tail(t))

CallCleanTweet ==
  /\ ~cleaned.done
  /\ cleaned' = [done |-> TRUE, text |-> clean_tweet(Flatten(raw)), calls |-> 1]
  /\ UNCHANGED raw
  /\ UNCHANGED notClean

\* clean_tweet is called on what it returned.
CallCleanTweetAgain ==
  /\ cleaned.done
  /\ cleaned.calls < MaxCleans
  /\ cleaned' = [done |-> TRUE, text |-> clean_tweet(cleaned.text), calls |-> cleaned.calls + 1]
  /\ UNCHANGED raw
  /\ UNCHANGED notClean

CleanInit ==
  /\ tweet_collection = <<>>
  /\ ChatIdle
  /\ CollectIdle
  /\ feed = 1
  /\ raw \in Texts
  /\ cleaned = [done |-> FALSE, text |-> <<>>, calls |-> 0]
  /\ BackfillIdle
  /\ IndexIdle
  /\ CallersIdle

NextClean ==
  \/ CallCleanTweet
  \/ CallCleanTweetAgain

SpecClean == CleanInit /\ [][NextClean]_vars

\* C14: clean_tweet returns its argument with exactly the URLs left out: nothing
\* of a URL remains, and every other character is kept, unchanged and in order.
C14_RemovesExactlyUrls == cleaned.done => cleaned.text = Flatten(PlainOf(raw))

\* ---------------------------------------------------------------------------
\* A session of either notebook.  Each notebook runs in a kernel of its own and
\* shares only the stored collection with the other, so a session is followed in
\* one of them: chatbot calls on a collection as found, or the fetch cells.
SessionInit ==
  /\ tweet_collection \in {Collection(n) : n \in CollectionSizes}
  /\ ChatIdle
  /\ CollectIdle
  /\ feed \in FeedSizes
  /\ CleanIdle
  /\ BackfillIdle
  /\ IndexIdle
  /\ CallersIdle

NextSession ==
  \/ runs = 0 /\ NextDirect
  \/ nOk + nFail = 0 /\ pc = "idle" /\ NextCollect

SpecSession == SessionInit /\ [][NextSession]_vars

Times(seq, x) == Cardinality({n \in DOMAIN seq : seq[n] = x})

\* C15: nothing is issued twice.  Within one chatbot call each of the embedding,
\* vector-search and completion calls is made at most once, failed or not; within
\* one run of a fetch cell no pair of a page is inserted twice, no page is
\* requested twice, and a failed page request ends the run.
C15_NothingRetried ==
  /\ \A c \in {"call embeddings", "call aggregate", "call completions"} : Times(trace, c) <= 1
  /\ \A e \in {"embeddings error", "aggregate error", "completions error"} :
        Times(trace, e) = 1 => /\ Times(trace, "call completions") <= 1
                               /\ (e # "embeddings error" => pc = "idle" /\ trace[Len(trace)] = e)
  /\ \A a, b \in DOMAIN attempts :
        (attempts[a].page = attempts[b].page /\ attempts[a].pos = attempts[b].pos) => a = b
  /\ \A a, b \in DOMAIN requests : requests[a] = requests[b] => a = b
  /\ cerr = "search_recent_tweets" =>
        /\ cpc = "idle"
        /\ requests # <<>>

\* An insert failed and the same run went on to the pairs after it.
C15_Witness ==
  \E a, b \in DOMAIN attempts :
     /\ a < b
     /\ attempts[a].result = "error"
     /\ attempts[b].result = "inserted"
     /\ attempts[b].id # attempts[a].id

\* ---------------------------------------------------------------------------
\* The embedding backfill cell: every stored tweet is embedded and updated.

MaxBackfills == 2    \* runs of the cell

\* Collections as the collection notebook leaves them: no embedding attribute.
BackfillSizes == {1, 2}

Collected(n) == [m \in 1..n |-> tweet_json([user |-> AuthorOf(m), tweet |-> TweetData(m)])]

HasEmbedding(doc) == "embedding" \in DOMAIN doc.tweet

\* update_one({'tweet.id': id}, {"$set": {'tweet.embedding': v}}): the first
\* document of that id gets the attribute, created or overwritten.
update_one(coll, id, v) ==
  IF \E n \in DOMAIN coll : coll[n].tweet.id = id
  THEN LET first == CHOOSE n \in DOMAIN coll :
                       /\ coll[n].tweet.id = id
                       /\ \A m \in 1..(n - 1) : coll[m].tweet.id # id
       IN  [coll EXCEPT ![first] = [@ EXCEPT !.tweet = ("embedding" :> v) @@ @]]
  ELSE coll

error_in_embedding(id) == <<"error in embedding tweet ", ToString(id)>>

\* loop_list of a loop that reads the cursor as it goes: the documents are those
\* stored when each is reached.
loop_cursor(snap, coll) == coll

\* list(tweets): the loop goes over the list made from the cursor before its first
\* round.
loop_list(snap, coll) == snap

\* The cell is run: find() is read into a list and the loop starts.
RunBackfillCell ==
  /\ bpc = "idle"
  /\ bruns < MaxBackfills
  /\ bruns' = bruns + 1
  /\ snapshot' = tweet_collection
  /\ bpos' = 1
  /\ bpc' = IF tweet_collection = <<>> THEN "idle" ELSE "loop"
  /\ UNCHANGED <<tweet_collection, stdout, blog>>
  /\ UNCHANGED notBackfill

\* One round of the loop.  get_embedding returns a vector, or prints and returns
\* None; update_one writes what it is given, or raises, and then the except clause
\* prints and passes.
BackfillOne ==
  /\ bpc = "loop"
  /\ LET tweet == loop_list(snapshot, tweet_collection)[bpos]
     IN  \E ok \in BOOLEAN, stored \in BOOLEAN :
           LET tweet_embedding == get_embedding(clean_tweet(tweet.tweet.text), ok)
           IN  /\ tweet_collection' =
                    IF stored THEN update_one(tweet_collection, tweet.tweet.id, tweet_embedding)
                    ELSE tweet_collection
               /\ stdout' = stdout \o get_embedding_prints(ok)
                              \o (IF stored THEN <<>> ELSE <<error_in_embedding(tweet.tweet.id)>>)
               /\ blog' = Append(blog, [run |-> bruns, id |-> tweet.tweet.id,
                                        text |-> tweet.tweet.text, embedded |-> ok,
                                        wrote |-> stored, value |-> tweet_embedding])
  /\ IF bpos < Len(loop_list(snapshot, tweet_collection'))
     THEN bpos' = bpos + 1 /\ UNCHANGED bpc
     ELSE bpc' = "idle" /\ UNCHANGED bpos
  /\ UNCHANGED <<snapshot, bruns>>
  /\ UNCHANGED notBackfill

BackfillInit ==
  /\ tweet_collection \in {Collected(n) : n \in BackfillSizes}
  /\ ChatIdle
  /\ CollectIdle
  /\ feed = 1
  /\ CleanIdle
  /\ BackfillIdle
  /\ IndexIdle
  /\ CallersIdle

NextBackfill ==
  \/ RunBackfillCell
  \/ BackfillOne

SpecBackfill == BackfillInit /\ [][NextBackfill]_vars

Writes(id) == {n \in DOMAIN blog : blog[n].id = id /\ blog[n].wrote}

\* C17: over any number of runs of the backfill loop, with or without embedding
\* failures, the embedding attribute of a stored document is written once and no
\* more, and once it is there its value does not change.
C17_EmbeddingWrittenOnce ==
  [][ /\ \A n \in DOMAIN tweet_collection' : Cardinality(Writes(tweet_collection[n].tweet.id)') <= 1
      /\ \A n \in DOMAIN tweet_collection :
            HasEmbedding(tweet_collection[n]) =>
               tweet_collection'[n].tweet.embedding = tweet_collection[n].tweet.embedding ]_vars

\* C18: a round of the backfill loop whose embedding call failed writes nothing:
\* the stored record, and an embedding stored before, are as they were, and the
\* loop goes on with the next document.
C18_FailedEmbeddingSkipped ==
  [][ (bpc = "loop" /\ blog' # blog /\ ~blog'[Len(blog')].embedded)
      => /\ tweet_collection' = tweet_collection
         /\ ~blog'[Len(blog')].wrote
         /\ IF bpos < Len(snapshot) THEN bpc' = "loop" /\ bpos' = bpos + 1 ELSE bpc' = "idle" ]_vars

\* ---------------------------------------------------------------------------
\* The search-index cell (create_search_index, then polling) and the cell after
\* it that makes the first vector_search call, run in the notebook's order: a
\* cell runs when the one before it has ended, and a raise stops the run.

MaxPolls == 4    \* calls of list_search_indexes

\* What list_search_indexes(result) can return for an index in a given state: the
\* index is listed some time after its creation, with "queryable" absent or False
\* until it can be queried.
Listings(state) ==
  IF state = "queryable"
  THEN { << [name |-> "tweet_vector", queryable |-> TRUE] >> }
  ELSE { <<>>,
         << [name |-> "tweet_vector"] >>,
         << [name |-> "tweet_vector", queryable |-> FALSE] >> }

\* A predicate satisfied by any listed index.
predicate_listed(ix) == TRUE

\* predicate = lambda index: index.get("queryable") is True
predicate(ix) == "queryable" \in DOMAIN ix /\ ix.queryable = TRUE

\* create_search_index returns the name and the build starts, or raises.
CreateSearchIndex ==
  /\ ipc = "create"
  /\ \/ index' = "building" /\ ipc' = "poll"
     \/ ipc' = "stopped" /\ UNCHANGED index
  /\ UNCHANGED <<seen, queried>>
  /\ UNCHANGED notIndex

\* The server ends the build, in its own time.
IndexBuilds ==
  /\ index = "building"
  /\ index' \in {"queryable", "failed"}
  /\ UNCHANGED <<ipc, seen, queried>>
  /\ UNCHANGED notIndex

\* A loop that gives up waiting after MaxPolls rounds and goes on.
after_poll_limited(indices, rounds) ==
  IF Len(indices) # 0 /\ predicate(indices[1]) THEN "query"
  ELSE IF rounds >= MaxPolls THEN "query" ELSE "poll"

\* if len(indices) and predicate(indices[0]): break; otherwise time.sleep(5) and
\* the next round, however many rounds there have been.
after_poll(indices, rounds) ==
  IF Len(indices) # 0 /\ predicate(indices[1]) THEN "query" ELSE "poll"

\* The listings kept: the last MaxPolls of them.
Remember(log, indices) ==
  IF Len(log) < MaxPolls THEN Append(log, indices) ELSE Append(Tail(log), indices)

\* One round of while True: the listing is read; a first index that satisfies the
\* predicate breaks the loop, anything else sleeps and goes round again.  A call
\* of list_search_indexes that raises ends the cell.
Poll ==
  /\ ipc = "poll"
  /\ \/ \E indices \in Listings(index) :
          /\ seen' = Remember(seen, indices)
          /\ ipc' = after_poll(indices, Len(seen') )
     \/ ipc' = "stopped" /\ UNCHANGED seen
  /\ UNCHANGED <<index, queried>>
  /\ UNCHANGED notIndex

\* for tweet in vector_search(user_query): the query is embedded and, unless that
\* failed, the $vectorSearch pipeline is sent.
FirstQuery ==
  /\ ipc = "query"
  /\ \E ok \in BOOLEAN :
       /\ queried' = IF get_embedding(query_to_embed(<<"combats">>), ok) = None THEN queried
                     ELSE Append(queried, [index |-> index])
       /\ ipc' = IF ok THEN "done" ELSE "stopped"
  /\ UNCHANGED <<index, seen>>
  /\ UNCHANGED notIndex

IndexInit ==
  /\ tweet_collection \in {Collection(n) : n \in CollectionSizes}
  /\ ChatIdle
  /\ CollectIdle
  /\ feed = 1
  /\ CleanIdle
  /\ BackfillIdle
  /\ ipc = "create"
  /\ index = "absent"
  /\ seen = <<>>
  /\ queried = <<>>
  /\ CallersIdle

NextIndex ==
  \/ CreateSearchIndex
  \/ IndexBuilds
  \/ Poll
  \/ FirstQuery

SpecIndex == IndexInit /\ [][NextIndex]_vars

ObservedQueryable == \E n \in DOMAIN seen : seen[n] # <<>> /\ predicate(seen[n][1])

\* C19: no vector-search query is issued before a poll has returned the index as
\* queryable: the creation is followed by polling, the polling ends only on such a
\* listing, and the index can be queried when the first query reaches it.
C19_QueryAfterReady ==
  /\ ipc \in {"query", "done"} => /\ ObservedQueryable
                                  /\ predicate(seen[Len(seen)][1])
  /\ \A n \in DOMAIN queried : ObservedQueryable /\ queried[n].index = "queryable"
  /\ ipc = "poll" => index # "absent" /\ ~ObservedQueryable /\ queried = <<>>

\* The first query was issued after polls that saw the index missing, then listed
\* and not ready, then ready.
C19_Witness ==
  /\ ipc = "done"
  /\ Len(queried) = 1
  /\ Len(seen) >= 3
  /\ seen[1] = <<>>
  /\ seen[2] # <<>> /\ ~predicate(seen[2][1])

\* ---------------------------------------------------------------------------
\* Several conversations in one process: each caller calls chatbot(prompt) for its
\* own conversation, and the calls interleave at the external calls.  prompt and
\* tweets are locals of a call; chat_history is the module-level list.

MaxCalls == 1    \* calls of chatbot by one caller

Callers == {"A", "B"}

\* What each conversation asks.
CallerPrompt(c) == IF c = "A" THEN <<"h","i">> ELSE <<"t","h","r","e","a","t","s">>

Frame(at, p, tw, m, n) == [pc |-> at, prompt |-> p, tweets |-> tw, messages |-> m, calls |-> n]

\* chatbot(prompt) up to vector_search's external calls.
CallerEnters(c) ==
  /\ frames[c].pc = "idle"
  /\ frames[c].calls < MaxCalls
  /\ chat_history' = append_user(chat_history, CallerPrompt(c))
  /\ owner' = Append(owner, c)
  /\ frames' = [frames EXCEPT ![c] = Frame("search", CallerPrompt(c), NoValue, <<>>, @.calls + 1)]
  /\ UNCHANGED notCallers

\* vector_search returns its list or its message, or the aggregate raises; on a
\* return the context turn is appended and the list is sent as the request.
CallerSearchReturns(c) ==
  /\ frames[c].pc = "search"
  /\ \/ \E ok \in BOOLEAN :
          LET qv == get_embedding(query_to_embed(frames[c].prompt), ok)
              tw == IF qv = None THEN vector_search_no_embedding
                    ELSE vector_search_result(tweet_collection,
                                              VectorSearchStage(tweet_collection, qv))
          IN  /\ chat_history' = append_context(chat_history, tw)
              /\ owner' = Append(owner, c)
              /\ frames' = [frames EXCEPT ![c] =
                   Frame("completions", @.prompt, tw, request_messages(chat_history'), @.calls)]
     \/ /\ chat_history' = history_on_raise(chat_history)
        /\ frames' = [frames EXCEPT ![c].pc = "idle"]
        /\ UNCHANGED owner
  /\ UNCHANGED notCallers

\* The completion returns and the reply is appended, or it raises.
CallerCompletionReturns(c) ==
  /\ frames[c].pc = "completions"
  /\ \/ \E reply \in Replies :
          /\ chat_history' = append_assistant(chat_history, reply)
          /\ owner' = Append(owner, c)
     \/ /\ chat_history' = history_on_raise(chat_history)
        /\ UNCHANGED owner
  /\ frames' = [frames EXCEPT ![c].pc = "idle"]
  /\ UNCHANGED notCallers

CallersInit ==
  /\ tweet_collection = Collection(2)
  /\ ChatIdle
  /\ CollectIdle
  /\ feed = 1
  /\ CleanIdle
  /\ BackfillIdle
  /\ IndexIdle
  /\ frames = [c \in Callers |-> Frame("idle", <<>>, NoValue, <<>>, 0)]
  /\ owner = <<"system">>

NextCallers ==
  \E c \in Callers :
     \/ CallerEnters(c)
     \/ CallerSearchReturns(c)
     \/ CallerCompletionReturns(c)

SpecCallers == CallersInit /\ [][NextCallers]_vars

\* C20: with the chatbot calls of several conversations interleaved, a turn that
\* one conversation appended is never in the completion request of another, nor
\* in the history another conversation's call appends to.
C20_IndependentTurnSequences ==
  \A c \in Callers :
     /\ \A n \in DOMAIN frames[c].messages : owner[n] \in {c, "system"}
     /\ frames[c].pc # "idle" => \A n \in DOMAIN chat_history : owner[n] \in {c, "system"}

\* ---------------------------------------------------------------------------
\* What of a retrieved document reaches the conversation.

\* repr of a list of documents that hold their text and nothing else.
RECURSIVE ReprTexts(_)
ReprTexts(texts) ==
  IF texts = <<>> THEN <<>>
  ELSE <<"{'tweet': {'text': '">> \o Head(texts) \o <<"'}}">>
       \o (IF Len(texts) > 1 THEN <<", ">> ELSE <<>>) \o ReprTexts(Tail(texts))

RankedTexts == [n \in DOMAIN ranked |-> tweet_collection[ranked[n].doc].tweet.text]

\* C21: the retrieved-context turn carries the text of the retrieved documents and
\* nothing else of them: the documents vector_search returns have no key but
\* tweet.text, and no score and no identifier of a document is in a turn of the
\* history or of the completion request.
C21_ContextCarriesTextOnly ==
  /\ tweets.type = "list" =>
        \A n \in DOMAIN tweets.value :
           /\ DOMAIN tweets.value[n] = {"tweet"}
           /\ DOMAIN tweets.value[n].tweet = {"text"}
  /\ \A h \in {chat_history, messages} :
        \A n \in DOMAIN h : \A k \in DOMAIN h[n].content :
           h[n].content[k] \notin {"{'_id': ", "'}, 'score': "}
  /\ (pc = "completions" /\ tweets.type = "list") =>
        /\ chat_history[Len(chat_history)].content =
             context_prefix \o delimiter \o <<"[">> \o ReprTexts(RankedTexts) \o <<"]">>
               \o delimiter
        /\ messages[Len(messages)] = chat_history[Len(chat_history)]

\* A request is out whose context turn holds several retrieved documents of
\* different scores.
C21_Witness ==
  /\ pc = "completions"
  /\ tweets.type = "list"
  /\ Len(ranked) >= 2
  /\ ranked[1].score # ranked[Len(ranked)].score
  /\ messages[Len(messages)] = ContextTurn(tweets)

\* ---------------------------------------------------------------------------
\* The RAG notebook with texts that carry links: the backfill cell over collected
\* tweets, or chatbot calls over a backfilled collection.

\* Queries with and without a URL in them.
RagQueries ==
  { <<"s","e","e"," ">> \o tweet_link, <<"t","h","r","e","a","t","s">> }

AskQuery ==
  /\ loop = "off"
  /\ pc = "idle"
  /\ \E text \in RagQueries : chatbot_enter(text)
  /\ stdout' = <<>>
  /\ UNCHANGED <<loop, user_input>>
  /\ UNCHANGED notChat

RagInit ==
  /\ tweet_collection \in {Collected(n) : n \in BackfillSizes} \cup {Collection(2)}
  /\ ChatIdle
  /\ CollectIdle
  /\ feed = 1
  /\ CleanIdle
  /\ BackfillIdle
  /\ IndexIdle
  /\ CallersIdle

NextRag ==
  \/ /\ bruns = 0
     /\ \A n \in DOMAIN tweet_collection : HasEmbedding(tweet_collection[n])
     /\ \/ AskQuery
        \/ EmbeddingsReturn
        \/ AggregateReturn
        \/ CompletionsReturn
  \/ /\ nOk + nFail = 0
     /\ pc = "idle"
     /\ NextBackfill

SpecRag == RagInit /\ [][NextRag]_vars

\* C22: the backfill loop embeds the cleaned text of each stored document, and
\* vector_search embeds the query as the caller gave it, a URL in it included.
C22_CleanedOnlyAtBackfill ==
  /\ \A n \in DOMAIN blog :
        blog[n].embedded => blog[n].value = EmbeddingOf(clean_tweet(blog[n].text))
  /\ query_embedding # None => query_embedding = EmbeddingOf(prompt)
  /\ \A n \in DOMAIN trace :
        trace[n] = "embeddings ok" => query_embedding = EmbeddingOf(prompt)

\* A stored text with a link was embedded without it, which gives another vector
\* than the text as stored.
C22_Witness ==
  \E n \in DOMAIN blog :
     /\ blog[n].embedded
     /\ blog[n].wrote
     /\ clean_tweet(blog[n].text) # blog[n].text
     /\ blog[n].value # EmbeddingOf(blog[n].text)
     /\ \E m \in DOMAIN tweet_collection :
           /\ tweet_collection[m].tweet.id = blog[n].id
           /\ tweet_collection[m].tweet.embedding = blog[n].value
           /\ tweet_collection[m].tweet.text = blog[n].text

\* ---------------------------------------------------------------------------
\* C23: vector_search only reads.  While a call is in it, whether the embedding
\* call and the pipeline succeed or fail, the stored documents and their embeddings
\* stay as they are, and the history gets nothing but the context turn that
\* chatbot appends once vector_search has returned.
C23_SearchReadsOnly ==
  [][ (pc = "embeddings" \/ pc = "aggregate") =>
        /\ tweet_collection' = tweet_collection
        /\ pc' = "aggregate" => chat_history' = chat_history
        /\ pc' = "idle" => chat_history' = chat_history
        /\ pc' = "completions" => chat_history' = Append(chat_history, ContextTurn(tweets')) ]_vars

\* The pipeline ran over documents with vectors and returned some of them.
C23_Witness ==
  /\ pc = "completions"
  /\ tweets.type = "list"
  /\ Len(tweets.value) >= 2
  /\ Len(tweet_collection) > Len(tweets.value)
  /\ nFail >= 1

SpecIndexFair ==
  /\ IndexInit
  /\ [][NextIndex]_vars
  /\ WF_vars(CreateSearchIndex)
  /\ WF_vars(Poll)
  /\ WF_vars(FirstQuery)

PollingLeft == ipc \in {"query", "done"}

\* C25 as stated: the polling loop ends if and only if a poll has observed the
\* index as queryable.  It ends, and the notebook goes on to the query, when the
\* index becomes and stays queryable; it never ends otherwise.
C25_ExitsIffQueryable ==
  /\ [][ (ipc = "poll" /\ ipc' # "poll") => (ipc' = "query" /\ ObservedQueryable') ]_vars
  /\ (<>[](index = "queryable")) => <>PollingLeft

\* C25: the loop has no timeout and no limit of rounds.  It is left for the query
\* only on a listing that shows the index queryable; when the index becomes and
\* stays queryable the loop ends; while the index is not queryable the loop is
\* never left for the query.  The one other way out is a call of
\* list_search_indexes that raises, which ends the cell and the run.
C25_ExitsOnQueryableOrRaise ==
  /\ [][ (ipc = "poll" /\ ipc' # "poll") =>
            \/ ipc' = "query" /\ ObservedQueryable' /\ index = "queryable"
            \/ ipc' = "stopped" /\ seen' = seen ]_vars
  /\ (<>[](index = "queryable")) => <>(PollingLeft \/ ipc = "stopped")
  /\ ([](index # "queryable")) => []~PollingLeft

\* The loop has gone round more often than the listings kept, the build has
\* failed, and the loop is still polling.
C25_Witness ==
  /\ ipc = "poll"
  /\ index = "failed"
  /\ Len(seen) = MaxPolls
  /\ \A n \in DOMAIN seen : seen[n] = <<>> \/ ~predicate(seen[n][1])

\* ---------------------------------------------------------------------------
Offered(p, id) == \E a \in DOMAIN attempts : attempts[a].page = p /\ attempts[a].id = id

\* The cell run has received a page and is through with it.
PageHandled ==
  /\ cpc = "idle"
  /\ response # 0
  /\ requests # <<>>
  /\ cerr \notin {"search_recent_tweets", "NameError"}

\* C26: every tweet of every page the API returned is offered to insert_one, the
\* tweets of a last page, whose meta has no next_token, included.
C26_EveryTweetOffered ==
  PageHandled => \A id \in Range(PageIds(response)) : Offered(response, id)

\* C27: a page gets as many insert attempts as it has tweets, and every stored
\* document holds a tweet with the user record of the tweet's author, also when
\* an author wrote several tweets of the page.
C27_PairsTweetWithAuthor ==
  /\ \A n \in DOMAIN tweet_collection :
        tweet_collection[n].user.id = tweet_collection[n].tweet.author_id
  /\ (PageHandled /\ cerr = "") =>
        Cardinality({a \in DOMAIN attempts : attempts[a].page = response})
          = Len(PageIds(response))

\* ---------------------------------------------------------------------------
\* C28: clean_tweet applied to what it returned returns it unchanged: leaving the
\* matches out never brings characters together that match the pattern.
C28_Idempotent ==
  [][ cleaned.done => (cleaned'.text = cleaned.text /\ \A n \in DOMAIN cleaned.text : MatchEnd(cleaned.text, n) = 0) ]_vars

\* clean_tweet was called again on a result from which URLs had been left out, two
\* of them with text between.
C28_Witness ==
  /\ cleaned.calls = 2
  /\ Len(raw) = 3
  /\ raw[1].url /\ raw[3].url
  /\ cleaned.text # <<>>
  /\ Len(cleaned.text) < Len(Flatten(raw))

\* ---------------------------------------------------------------------------
\* C29: when chatbot raises inside the loop, the loop ends with nothing printed (no
\* goodbye line) and chat_history keeps every turn appended before the failure, the
\* user turn of the failed call included; a loop started afterwards finds that
\* history and its first call appends to it and sends it whole.
C29_RaiseEndsLoopKeepsHistory ==
  [][ /\ (loop = "call" /\ loop' = "off") =>
           /\ last'.status = "raised"
           /\ stdout' = stdout
           /\ \A n \in DOMAIN stdout' : stdout'[n] # goodbye
           /\ chat_history' = chat_history
           /\ UserTurn(user_input) \in Range(chat_history')
      /\ (loop = "off" /\ loop' = "input") => chat_history' = chat_history
      /\ (loop = "input" /\ loop' = "call") =>
           chat_history' = Append(chat_history, UserTurn(user_input')) ]_vars

\* A loop started after a call of an earlier loop had raised is at its completion
\* request, which carries the turn the failed call left.
C29_Witness ==
  /\ loop = "call"
  /\ pc = "completions"
  /\ nFail = 1
  /\ nOk = 0
  /\ chat_history[2] = UserTurn(<<"q","u","i","t"," ">>)
  /\ prompt = <<"h","i">>
  /\ Len(messages) >= 4
  /\ messages[2] = UserTurn(<<"q","u","i","t"," ">>)

\* ---------------------------------------------------------------------------
\* The backfill cell while the collection notebook, run elsewhere on the same
\* demo.tweet_collection, stores tweets.

MaxArrivals == 1    \* tweets stored while the backfill cell runs

\* insert_one of the collection notebook during the backfill loop.
InsertDuringBackfill ==
  /\ bpc = "loop"
  /\ Len(tweet_collection) < Len(snapshot) + MaxArrivals
  /\ LET m == Len(tweet_collection) + 1
     IN  tweet_collection' = insert_one(tweet_collection, Collected(m)[m])
  /\ UNCHANGED <<stdout, snapshot, bpos, bpc, bruns, blog>>
  /\ UNCHANGED notBackfill

NextBackfillLive ==
  \/ RunBackfillCell
  \/ BackfillOne
  \/ InsertDuringBackfill

\* The loop is not suspended for ever: a round that can run does run.
SpecBackfillLive == BackfillInit /\ [][NextBackfillLive]_vars /\ WF_vars(BackfillOne)

\* The rounds of the current run, in the order they were made.
RoundsOfRun == SelectSeq(blog, LAMBDA e : e.run = bruns)

\* A document without its embedding attribute.
WithoutEmbedding(doc) ==
  [doc EXCEPT !.tweet = [f \in (DOMAIN doc.tweet) \ {"embedding"} |-> doc.tweet[f]]]

\* C30: the backfill loop goes over the list read before its first round: round n
\* makes one embedding request, for document n of that list; a round changes
\* nothing of any stored document but the embedding attribute; when the loop has
\* ended there has been one round per document of the list, whatever failed and
\* whatever was stored meanwhile; and the loop does end.
C30_SnapshotOnePerDocument ==
  /\ [](/\ Len(RoundsOfRun) = (IF bpc = "loop" THEN bpos - 1 ELSE Len(snapshot))
        /\ \A n \in DOMAIN RoundsOfRun :
              /\ RoundsOfRun[n].id = snapshot[n].tweet.id
              /\ RoundsOfRun[n].text = snapshot[n].tweet.text)
  /\ [][ /\ bpc = "loop" => snapshot' = snapshot
         /\ blog' # blog =>
              /\ Len(blog') = Len(blog) + 1
              /\ Len(tweet_collection') = Len(tweet_collection)
              /\ \A n \in DOMAIN tweet_collection :
                    WithoutEmbedding(tweet_collection'[n]) = WithoutEmbedding(tweet_collection[n])
              /\ IF bpos < Len(snapshot) THEN bpc' = "loop" /\ bpos' = bpos + 1
                                         ELSE bpc' = "idle" ]_vars
  /\ (bpc = "loop" ~> bpc = "idle")

\* A run over two documents has ended with a round for each, the first with a failed
\* embedding request and the second with a failed update, and a tweet stored during
\* the loop has no embedding.
C30_Witness ==
  /\ bpc = "idle"
  /\ bruns = 1
  /\ Len(snapshot) = 2
  /\ Len(blog) = 2
  /\ ~blog[1].embedded
  /\ ~blog[2].wrote
  /\ Len(tweet_collection) = 3
  /\ ~HasEmbedding(tweet_collection[3])

====
